---------------------------- MODULE Spec2Model ----------------------------
(***************************************************************************)
(* A model of RouteSync's pathfinding engine (lib/graph: PriorityQueue,    *)
(* dijkstra, aStar, bellmanFord, generateCityGraph) and of the calls the   *)
(* page makes to it.                                                       *)
(*                                                                         *)
(* Numbers.  The engine computes with JavaScript numbers.  A value of a    *)
(* Map<string, number> lookup is modelled as a record: a finite number     *)
(* (an integer), Infinity, NaN (undefined + w) or undefined (a key the Map *)
(* does not hold).  An edge's traffic is counted in steps of               *)
(* 1 / TrafficSteps: the field traffic holds edge.traffic * TrafficSteps.  *)
(* Distances are counted in the same steps, so that an edge's effective    *)
(* weight, weight * (1 + edge.traffic * 2) * TrafficSteps, is the integer  *)
(* weight * (TrafficSteps + 2 * traffic).  Math.sqrt is a fixed-point      *)
(* square root with SqrtScale steps per step of distance; A*'s priorities  *)
(* are counted in those.                                                   *)
(***************************************************************************)
EXTENDS Integers, Sequences, FiniteSets, Bags, TLC

VARIABLES
    graph,            \* the Graph handed to the call: [nodes, edges]
    startId,          \* the call's startId
    endId,            \* the call's endId
    isEmergency,      \* the call's isEmergency
    algorithm,        \* "none" before the call, then the function called
    pc,               \* "idle", "loop", "check", "reconstruct", "done"
    distances,        \* dijkstra / bellmanFord: distances; aStar: gScore
    fScore,           \* aStar: fScore
    previous,         \* previous
    visited,          \* visited
    pq,               \* pq.heap
    allEdges,         \* bellmanFord: allEdges
    pass,             \* bellmanFord: i, the relaxation pass
    edgeIndex,        \* bellmanFord: the place in allEdges of the pass's next edge
    hasNegativeCycle, \* bellmanFord: hasNegativeCycle
    path,             \* the path under reconstruction
    current,          \* the reconstruction loop's current
    result,           \* the returned record
    selectedStart,    \* Index: selectedStart, Null or a node id
    selectedEnd,      \* Index: selectedEnd, Null or a node id
    pagePath,         \* Index: path, the path displayed
    visitedNodes,     \* Index: visitedNodes, the visited nodes displayed
    pathDistance,     \* Index: pathDistance
    isAnimating,      \* Index: isAnimating
    animation,        \* the animatePath calls in flight, each at its await
    sinceReset,       \* Reset Map clicked and Find Optimal Route not clicked since
    emergencyVehicle, \* Index: emergencyVehicle, [position, path] or NoVehicle
    dispatches,       \* the handleTriggerEmergency calls in flight, each at its timer
    enqueued,         \* PriorityQueue: the priority each value was enqueued with
    dequeued,         \* PriorityQueue: what the last call returned, [t, v]
    held              \* PriorityQueue: the bag of entries enqueued and not yet returned

vars == <<graph, startId, endId, isEmergency, algorithm, pc, distances, fScore,
          previous, visited, pq, allEdges, pass, edgeIndex, hasNegativeCycle,
          path, current, result, selectedStart, selectedEnd, pagePath,
          visitedNodes, pathDistance, isAnimating, animation, sinceReset,
          emergencyVehicle, dispatches, enqueued, dequeued, held>>

\* The locals of a call of the engine
callVars == <<pc, distances, fScore, previous, visited, pq, allEdges, pass,
              edgeIndex, hasNegativeCycle, path, current, result>>

\* The state of the page (Index) and of a PriorityQueue's user
emergencyVars == <<emergencyVehicle, dispatches>>
pageVars == <<selectedStart, selectedEnd, pagePath, visitedNodes, pathDistance,
              isAnimating, animation, sinceReset, emergencyVars>>
queueVars == <<enqueued, dequeued, held>>

---------------------------------------------------------------------------
(* Bounds of the model *)

\* The largest base weight an input edge carries.
MaxWeight == 3

\* The steps in which traffic (0 to 1) and distances are counted.
TrafficSteps == 4

\* Fixed-point steps of Math.sqrt per step of distance.
SqrtScale == 4

\* The calls of enqueue made on one PriorityQueue; the entries a heap holds.
MaxEnqueues == 5

\* The largest priority a value is enqueued with.
MaxPriority == 2

\* The handleTriggerEmergency calls in flight at one time.
MaxDispatches == 2

---------------------------------------------------------------------------
(* JavaScript numbers, null and undefined *)

Num(n) == [t |-> "num", v |-> n]
Infinity == [t |-> "inf", v |-> 0]
NaN == [t |-> "nan", v |-> 0]
Undefined == [t |-> "undef", v |-> 0]

\* null, and the undefined a Map<string, string | null> lookup yields
Null == "null"
UndefinedId == "undefined"

IsNumber(a) == a.t \in {"num", "inf"}

\* a + w, w a finite number
Plus(a, w) ==
    CASE a.t = "num" -> Num(a.v + w)
      [] a.t = "inf" -> Infinity
      [] OTHER -> NaN

\* a < b with an undefined right side read as Infinity
LessMissingAsInfinity(a, b) ==
    /\ a.t = "num"
    /\ (b.t \in {"inf", "undef"} \/ (b.t = "num" /\ a.v < b.v))

\* a < b: false as soon as either side is NaN or undefined
Less(a, b) ==
    /\ IsNumber(a)
    /\ IsNumber(b)
    /\ a.t = "num"
    /\ (b.t = "inf" \/ a.v < b.v)

\* x || Infinity: 0, NaN and undefined are falsy
OrInfinity(a) == IF a.t = "num" /\ a.v # 0 THEN a ELSE IF a.t = "inf" THEN a ELSE Infinity

\* x || null
OrNull(id) == IF id = UndefinedId THEN Null ELSE id

\* Map.get and Map.set
MapGet(m, k) == IF k \in DOMAIN m THEN m[k] ELSE Undefined
MapGetId(m, k) == IF k \in DOMAIN m THEN m[k] ELSE UndefinedId
MapSet(m, k, v) == IF k \in DOMAIN m THEN [m EXCEPT ![k] = v] ELSE m @@ (k :> v)

EmptyMap == [x \in {} |-> Undefined]

\* floor(sqrt(n)): the r with r * r <= n < (r + 1) * (r + 1), looked for in
\* the block of 128 values that holds it
ISqrt[n \in Nat] ==
    LET block == CHOOSE k \in 0..320 :
                     /\ (128 * k) * (128 * k) <= n
                     /\ n < (128 * (k + 1)) * (128 * (k + 1))
    IN  CHOOSE r \in (128 * block)..(128 * block + 127) :
            r * r <= n /\ n < (r + 1) * (r + 1)

\* Math.sqrt(n) in fixed-point steps
Sqrt(n) == ISqrt[n * TrafficSteps * SqrtScale * TrafficSteps * SqrtScale]

---------------------------------------------------------------------------
(* PriorityQueue: a binary min-heap in a sequence (heap[1] is this.heap[0]) *)

Swap(heap, i, j) == [heap EXCEPT ![i] = heap[j], ![j] = heap[i]]

\* bubbleUp(index), index counted from 1
RECURSIVE bubbleUp(_, _)
bubbleUp(heap, index) ==
    IF index <= 1 THEN heap
    ELSE LET parentIndex == index \div 2
         IN  IF heap[parentIndex].priority <= heap[index].priority THEN heap
             ELSE bubbleUp(Swap(heap, parentIndex, index), parentIndex)

\* bubbleDown(index), index counted from 1
RECURSIVE bubbleDown(_, _)
bubbleDown(heap, index) ==
    LET length == Len(heap)
        leftChild == 2 * index
        rightChild == 2 * index + 1
        s1 == IF leftChild <= length /\ heap[leftChild].priority < heap[index].priority
              THEN leftChild ELSE index
        smallest == IF rightChild <= length /\ heap[rightChild].priority < heap[s1].priority
                    THEN rightChild ELSE s1
    IN  IF smallest = index THEN heap
        ELSE bubbleDown(Swap(heap, smallest, index), smallest)

\* The entry pushed and left at the end of the heap
enqueueUnsorted(heap, value, priority) ==
    Append(heap, [priority |-> priority, value |-> value])

enqueue(heap, value, priority) ==
    bubbleUp(Append(heap, [priority |-> priority, value |-> value]), Len(heap) + 1)

\* dequeue without `this.heap[0] = last`: the last entry is dropped and the
\* minimum stays
dequeueKeepsMin(heap) ==
    [value |-> heap[1].value, heap |-> SubSeq(heap, 1, Len(heap) - 1)]

\* dequeue on a non-empty heap: the value returned and the heap left
dequeue(heap) ==
    LET min == heap[1]
        last == heap[Len(heap)]
        popped == SubSeq(heap, 1, Len(heap) - 1)
    IN  [value |-> min.value,
         heap |-> IF Len(popped) > 0
                  THEN bubbleDown([popped EXCEPT ![1] = last], 1)
                  ELSE popped]

isEmpty(heap) == Len(heap) = 0

---------------------------------------------------------------------------
(* Graph: nodes is the Map<string, Node> as the sequence of its values in  *)
(* insertion order (a Node: [id, x, y, type]); edges is the                *)
(* Map<string, Edge[]> as the sequence of its entries [key, list] in       *)
(* insertion order (an Edge: [from, to, weight, traffic, blocked]).        *)

Range(seq) == {seq[i] : i \in DOMAIN seq}

NodeIds(g) == {g.nodes[i].id : i \in DOMAIN g.nodes}

\* graph.nodes.get(id), for an id the Map holds
NodeOf(g, id) == g.nodes[CHOOSE i \in DOMAIN g.nodes : g.nodes[i].id = id]

\* graph.edges.get(id) || []
EdgesGet(g, id) ==
    IF \E i \in DOMAIN g.edges : g.edges[i].key = id
    THEN g.edges[CHOOSE i \in DOMAIN g.edges : g.edges[i].key = id].list
    ELSE <<>>

\* The check of blocked left out
TraversableAlways(edge, em) == TRUE

\* if (edge.blocked && !isEmergency) continue
Traversable(edge, em) == ~(edge.blocked /\ ~em)

\* Traffic applied in an emergency too
EffectiveWeightWithTraffic(edge, em) == edge.weight * (TrafficSteps + edge.traffic * 2)

\* effectiveWeight in steps of distance: edge.weight, times
\* (1 + edge.traffic * 2) unless isEmergency
EffectiveWeight(edge, em) ==
    IF em THEN edge.weight * TrafficSteps
    ELSE edge.weight * (TrafficSteps + edge.traffic * 2)

\* The locals of a call that has not started
IdleLocals ==
    [pc |-> "idle", distances |-> EmptyMap, fScore |-> EmptyMap,
     previous |-> [x \in {} |-> Null], visited |-> <<>>, pq |-> <<>>,
     allEdges |-> <<>>, pass |-> 0, edgeIndex |-> 1,
     hasNegativeCycle |-> FALSE,
     path |-> <<>>, current |-> Null, result |-> [path |-> <<>>]]

\* graph.nodes.forEach: distances (gScore) and previous as first set
InitDistances(g, s) == [id \in NodeIds(g) |-> IF id = s THEN Num(0) ELSE Infinity]
InitPrevious(g) == [id \in NodeIds(g) |-> Null]

\* The number of entries the model records of a path under reconstruction:
\* a chain of predecessors without a repeated id is shorter.
PathCap(g) == Len(g.nodes) + 2

---------------------------------------------------------------------------
(* Path reconstruction: the loop that ends dijkstra, aStar and bellmanFord *)

\* The path returned as reconstructed, path[0] not compared with startId
reconstructUnchecked(g, s, e, L, res) ==
    IF L.current = Null
    THEN [L EXCEPT !.pc = "done",
                   !.result = [path |-> L.path,
                               distance |-> OrInfinity(MapGet(L.distances, e))] @@ res]
    ELSE [L EXCEPT !.path = IF Len(@) < PathCap(g) THEN <<L.current>> \o @ ELSE @,
                   !.current = OrNull(MapGetId(L.previous, L.current))]

\* One iteration of while (current !== null), or the return that follows it.
\* res is the record returned apart from its path and distance.
reconstruct(g, s, e, L, res) ==
    IF L.current = Null
    THEN [L EXCEPT !.pc = "done",
                   !.result = [path |-> IF L.path[1] = s THEN L.path ELSE <<>>,
                               distance |-> OrInfinity(MapGet(L.distances, e))] @@ res]
    ELSE [L EXCEPT !.path = IF Len(@) < PathCap(g) THEN <<L.current>> \o @ ELSE @,
                   !.current = OrNull(MapGetId(L.previous, L.current))]

---------------------------------------------------------------------------
(* dijkstra *)

dijkstraInit(g, s, e, em) ==
    [IdleLocals EXCEPT !.pc = "loop",
                       !.distances = InitDistances(g, s),
                       !.previous = InitPrevious(g),
                       !.pq = enqueue(<<>>, s, 0)]

\* for (const edge of edges), from the k-th edge on
RECURSIVE dijkstraRelax(_, _, _, _, _)
dijkstraRelax(edges, k, cur, em, L) ==
    IF k > Len(edges) THEN L
    ELSE LET edge == edges[k]
             neighbor == edge.to
             distance == Plus(MapGet(L.distances, cur), EffectiveWeight(edge, em))
         IN  IF ~Traversable(edge, em) THEN dijkstraRelax(edges, k + 1, cur, em, L)
             ELSE IF Less(distance, MapGet(L.distances, neighbor))
             THEN dijkstraRelax(edges, k + 1, cur, em,
                      [L EXCEPT !.distances = MapSet(@, neighbor, distance),
                                !.previous = MapSet(@, neighbor, cur),
                                !.pq = enqueue(@, neighbor, distance.v)])
             ELSE dijkstraRelax(edges, k + 1, cur, em, L)

\* The iteration without `if (visited.includes(current)) continue`
dijkstraLoopRevisiting(g, s, e, em, L) ==
    IF isEmpty(L.pq) THEN [L EXCEPT !.pc = "reconstruct", !.current = e]
    ELSE LET d == dequeue(L.pq)
             cur == d.value
             L2 == [L EXCEPT !.pq = d.heap, !.visited = Append(@, cur)]
         IN  IF cur = e THEN [L2 EXCEPT !.pc = "reconstruct", !.current = e]
             ELSE dijkstraRelax(EdgesGet(g, cur), 1, cur, em, L2)

\* The iteration without `if (current === endId) break`
dijkstraLoopNoBreak(g, s, e, em, L) ==
    IF isEmpty(L.pq) THEN [L EXCEPT !.pc = "reconstruct", !.current = e]
    ELSE LET d == dequeue(L.pq)
             cur == d.value
             L1 == [L EXCEPT !.pq = d.heap]
             L2 == [L1 EXCEPT !.visited = Append(@, cur)]
         IN  IF cur \in Range(L.visited) THEN L1
             ELSE dijkstraRelax(EdgesGet(g, cur), 1, cur, em, L2)

\* One iteration of while (!pq.isEmpty()), or the loop's exit
dijkstraLoop(g, s, e, em, L) ==
    IF isEmpty(L.pq) THEN [L EXCEPT !.pc = "reconstruct", !.current = e]
    ELSE LET d == dequeue(L.pq)
             cur == d.value
             L1 == [L EXCEPT !.pq = d.heap]
             L2 == [L1 EXCEPT !.visited = Append(@, cur)]
         IN  IF cur \in Range(L.visited) THEN L1
             ELSE IF cur = e THEN [L2 EXCEPT !.pc = "reconstruct", !.current = e]
             ELSE dijkstraRelax(EdgesGet(g, cur), 1, cur, em, L2)

---------------------------------------------------------------------------
(* aStar *)

\* heuristic(nodeId), in fixed-point steps
heuristic(g, e, nodeId) ==
    IF nodeId \notin NodeIds(g) THEN Infinity
    ELSE LET node == NodeOf(g, nodeId)
             endNode == NodeOf(g, e)
         IN  Num(Sqrt((node.x - endNode.x) * (node.x - endNode.x)
                      + (node.y - endNode.y) * (node.y - endNode.y)))

\* tentativeGScore + heuristic(neighbor), in fixed-point steps
FScoreOf(gs, h) ==
    IF gs.t = "num" /\ h.t = "num" THEN Num(gs.v * SqrtScale + h.v) ELSE Infinity

aStarInit(g, s, e, em) ==
    IF s \notin NodeIds(g) \/ e \notin NodeIds(g)
    THEN [IdleLocals EXCEPT !.pc = "done",
                            !.result = [path |-> <<>>, distance |-> Infinity,
                                        visited |-> <<>>]]
    ELSE LET fs == [id \in NodeIds(g) |->
                       IF id = s THEN FScoreOf(Num(0), heuristic(g, e, s)) ELSE Infinity]
         IN  [IdleLocals EXCEPT !.pc = "loop",
                                !.distances = InitDistances(g, s),
                                !.fScore = fs,
                                !.previous = InitPrevious(g),
                                !.pq = enqueue(<<>>, s, fs[s].v)]

RECURSIVE aStarRelax(_, _, _, _, _, _, _)
aStarRelax(g, e, edges, k, cur, em, L) ==
    IF k > Len(edges) THEN L
    ELSE LET edge == edges[k]
             neighbor == edge.to
             tentativeGScore == Plus(MapGet(L.distances, cur), EffectiveWeight(edge, em))
             f == FScoreOf(tentativeGScore, heuristic(g, e, neighbor))
         IN  IF ~Traversable(edge, em) THEN aStarRelax(g, e, edges, k + 1, cur, em, L)
             ELSE IF Less(tentativeGScore, MapGet(L.distances, neighbor))
             THEN aStarRelax(g, e, edges, k + 1, cur, em,
                      [L EXCEPT !.previous = MapSet(@, neighbor, cur),
                                !.distances = MapSet(@, neighbor, tentativeGScore),
                                !.fScore = MapSet(@, neighbor, f),
                                !.pq = enqueue(@, neighbor, f.v)])
             ELSE aStarRelax(g, e, edges, k + 1, cur, em, L)

aStarLoop(g, s, e, em, L) ==
    IF isEmpty(L.pq) THEN [L EXCEPT !.pc = "reconstruct", !.current = e]
    ELSE LET d == dequeue(L.pq)
             cur == d.value
             L1 == [L EXCEPT !.pq = d.heap]
             L2 == [L1 EXCEPT !.visited = Append(@, cur)]
         IN  IF cur \in Range(L.visited) THEN L1
             ELSE IF cur = e THEN [L2 EXCEPT !.pc = "reconstruct", !.current = e]
             ELSE aStarRelax(g, e, EdgesGet(g, cur), 1, cur, em, L2)

---------------------------------------------------------------------------
(* bellmanFord *)

\* Every edge of the entry collected, blocked or not
TraversableEdgesUnfiltered(from, list, em) ==
    [j \in DOMAIN list |->
        [from |-> from, to |-> list[j].to, weight |-> EffectiveWeight(list[j], em)]]

\* edges.forEach(edge => ...) of one entry of graph.edges: the edges pushed
\* to allEdges, those with !edge.blocked || isEmergency
TraversableEdges(from, list, em) ==
    LET kept == SelectSeq(list, LAMBDA edge : ~edge.blocked \/ em)
    IN  [j \in DOMAIN kept |->
            [from |-> from, to |-> kept[j].to,
             weight |-> EffectiveWeight(kept[j], em)]]

\* graph.edges.forEach((edges, from) => ...), from the k-th entry on
RECURSIVE CollectEdges(_, _, _)
CollectEdges(g, k, em) ==
    IF k > Len(g.edges) THEN <<>>
    ELSE TraversableEdges(g.edges[k].key, g.edges[k].list, em)
         \o CollectEdges(g, k + 1, em)

bellmanFordInit(g, s, e, em) ==
    [IdleLocals EXCEPT !.pc = "loop",
                       !.distances = InitDistances(g, s),
                       !.previous = InitPrevious(g),
                       !.allEdges = CollectEdges(g, 1, em)]

\* The body of for (const edge of allEdges)
bellmanFordRelax(edge, L) ==
    LET newDist == Plus(MapGet(L.distances, edge.from), edge.weight)
    IN  IF Less(newDist, MapGet(L.distances, edge.to))
        THEN [L EXCEPT !.distances = MapSet(@, edge.to, newDist),
                       !.previous = MapSet(@, edge.to, edge.from)]
        ELSE L

\* One pass fewer: i < nodeCount - 2
bellmanFordLoopShort(g, L) ==
    LET nodeCount == Len(g.nodes)
    IN  IF ~(L.pass < nodeCount - 2) THEN [L EXCEPT !.pc = "check"]
        ELSE IF L.edgeIndex > Len(L.allEdges)
        THEN [L EXCEPT !.pass = @ + 1, !.edgeIndex = 1]
        ELSE [bellmanFordRelax(L.allEdges[L.edgeIndex], L) EXCEPT !.edgeIndex = @ + 1]

\* One step of for (let i = 0; i < nodeCount - 1; i++) for (const edge of
\* allEdges): the relaxation of the pass's next edge, the end of the pass,
\* or the loop's exit
bellmanFordLoop(g, L) ==
    LET nodeCount == Len(g.nodes)
    IN  IF ~(L.pass < nodeCount - 1) THEN [L EXCEPT !.pc = "check"]
        ELSE IF L.edgeIndex > Len(L.allEdges)
        THEN [L EXCEPT !.pass = @ + 1, !.edgeIndex = 1]
        ELSE [bellmanFordRelax(L.allEdges[L.edgeIndex], L) EXCEPT !.edgeIndex = @ + 1]

\* <= where the check has <
StillRelaxesOrEqual(edge, dist) ==
    LET newDist == Plus(MapGet(dist, edge.from), edge.weight)
        old == MapGet(dist, edge.to)
    IN  Less(newDist, old) \/ (newDist.t = "num" /\ newDist = old)

\* The check for negative cycles
StillRelaxes(edge, dist) ==
    Less(Plus(MapGet(dist, edge.from), edge.weight), MapGet(dist, edge.to))

bellmanFordCheck(e, L) ==
    [L EXCEPT !.hasNegativeCycle =
                  \E k \in DOMAIN L.allEdges : StillRelaxes(L.allEdges[k], L.distances),
              !.pc = "reconstruct",
              !.current = e]

---------------------------------------------------------------------------
(* A call run to its end *)

\* The locals of the call as variables
Locals ==
    [pc |-> pc, distances |-> distances, fScore |-> fScore, previous |-> previous,
     visited |-> visited, pq |-> pq, allEdges |-> allEdges, pass |-> pass,
     edgeIndex |-> edgeIndex,
     hasNegativeCycle |-> hasNegativeCycle, path |-> path, current |-> current,
     result |-> result]

SetLocals(L) ==
    /\ pc' = L.pc
    /\ distances' = L.distances
    /\ fScore' = L.fScore
    /\ previous' = L.previous
    /\ visited' = L.visited
    /\ pq' = L.pq
    /\ allEdges' = L.allEdges
    /\ pass' = L.pass
    /\ edgeIndex' = L.edgeIndex
    /\ hasNegativeCycle' = L.hasNegativeCycle
    /\ path' = L.path
    /\ current' = L.current
    /\ result' = L.result

\* What the function returns besides path and distance
ResultRest(alg, L) ==
    IF alg = "bellmanford" THEN [hasNegativeCycle |-> L.hasNegativeCycle]
    ELSE [visited |-> L.visited]

\* The next step of the function alg, from locals L
StepOf(alg, g, s, e, em, L) ==
    CASE L.pc = "loop" /\ alg = "dijkstra" -> dijkstraLoop(g, s, e, em, L)
      [] L.pc = "loop" /\ alg = "astar" -> aStarLoop(g, s, e, em, L)
      [] L.pc = "loop" /\ alg = "bellmanford" -> bellmanFordLoop(g, L)
      [] L.pc = "check" -> bellmanFordCheck(e, L)
      [] L.pc = "reconstruct" -> reconstruct(g, s, e, L, ResultRest(alg, L))
      [] OTHER -> L

\* The reconstruction loop has walked more predecessors than there are ids to
\* walk: it is on a cycle of previous, which nothing changes any more.
Diverges(g, L) ==
    L.pc = "reconstruct" /\ L.current # Null /\ Len(L.path) >= PathCap(g)

RECURSIVE RunFrom(_, _, _, _, _, _)
RunFrom(alg, g, s, e, em, L) ==
    IF L.pc = "done" \/ Diverges(g, L) THEN L
    ELSE RunFrom(alg, g, s, e, em, StepOf(alg, g, s, e, em, L))

\* The locals at the end of a call (pc = "done"), or on its endless loop
dijkstra(g, s, e, em) == RunFrom("dijkstra", g, s, e, em, dijkstraInit(g, s, e, em))
aStar(g, s, e, em) == RunFrom("astar", g, s, e, em, aStarInit(g, s, e, em))
bellmanFord(g, s, e, em) ==
    RunFrom("bellmanford", g, s, e, em, bellmanFordInit(g, s, e, em))

---------------------------------------------------------------------------
(* The inputs of the engine's calls: small graphs on four nodes *)

FixtureNodes ==
    <<[id |-> "A", x |-> 0, y |-> 3, type |-> "normal"],
      [id |-> "B", x |-> 3, y |-> 0, type |-> "normal"],
      [id |-> "C", x |-> 1, y |-> 0, type |-> "normal"],
      [id |-> "D", x |-> 0, y |-> 0, type |-> "normal"]>>

\* The adjacency of each fixture: the entries of graph.edges in insertion
\* order, each with the targets of its edges in order.
Kite == <<[key |-> "C", tos |-> <<"D">>], [key |-> "B", tos |-> <<"C">>],
          [key |-> "A", tos |-> <<"C", "B">>]>>
Diamond == <<[key |-> "A", tos |-> <<"B", "C">>], [key |-> "C", tos |-> <<"D">>],
             [key |-> "B", tos |-> <<"D">>]>>
Triangle == <<[key |-> "A", tos |-> <<"B">>], [key |-> "B", tos |-> <<"C">>],
              [key |-> "C", tos |-> <<"A", "D">>]>>

Topologies == {Kite, Diamond, Triangle}

\* The base weights of a fixture's edges: the roads of the two acyclic
\* fixtures carry no negative weight, the cycle's edges may.
Weights(topo) == IF topo = Triangle THEN {-5, 1, MaxWeight} ELSE {0, 1, MaxWeight}

RECURSIVE EdgeCount(_, _)
EdgeCount(topo, k) ==
    IF k > Len(topo) THEN 0 ELSE Len(topo[k].tos) + EdgeCount(topo, k + 1)

\* The edges of the fixture topo: the n-th edge (counted through the entries)
\* has weight w[n]; edge cond.edge is blocked or congested as cond.kind says.
FixtureEdges(topo, w, cond) ==
    [k \in DOMAIN topo |->
        [key |-> topo[k].key,
         list |-> [j \in DOMAIN topo[k].tos |->
                     LET n == EdgeCount(topo, 1) - EdgeCount(topo, k) + j
                     IN  [from |-> topo[k].key, to |-> topo[k].tos[j],
                          weight |-> w[n],
                          traffic |-> IF cond.edge = n /\ cond.kind = "congested"
                                      THEN TrafficSteps \div 2 ELSE 0,
                          blocked |-> (cond.edge = n /\ cond.kind = "blocked")
                                      \/ cond.kind = "allblocked"]]]]

Conditions(n) ==
    {[edge |-> 0, kind |-> "clear"], [edge |-> 0, kind |-> "allblocked"]}
    \cup {[edge |-> k, kind |-> kind] : k \in 1..n, kind \in {"blocked", "congested"}}

GraphsOf(topo) ==
    {[nodes |-> FixtureNodes, edges |-> FixtureEdges(topo, w, cond)] :
        w \in [1..EdgeCount(topo, 1) -> Weights(topo)],
        cond \in Conditions(EdgeCount(topo, 1))}

FixtureGraphs == UNION {GraphsOf(topo) : topo \in Topologies}

\* A fixture with edges that leave the node mapping: "Z" is the id of no
\* node.  A -> Z and C -> Z are dangling; the entry of Z holds an edge back
\* into the graph.
Stray == <<[key |-> "A", tos |-> <<"B", "Z", "C">>], [key |-> "B", tos |-> <<"D">>],
           [key |-> "Z", tos |-> <<"D">>], [key |-> "C", tos |-> <<"D", "Z">>]>>

\* The stray fixture with weights 1 and MaxWeight, clear or with one edge
\* blocked
StrayGraphs ==
    {[nodes |-> FixtureNodes, edges |-> FixtureEdges(Stray, w, cond)] :
        w \in [1..EdgeCount(Stray, 1) -> {1, MaxWeight}],
        cond \in {c \in Conditions(EdgeCount(Stray, 1)) : c.kind \in {"clear", "blocked"}}}

---------------------------------------------------------------------------
(* generateCityGraph *)

nodeData ==
    <<[id |-> "A", x |-> 100, y |-> 80, type |-> "normal"],
      [id |-> "B", x |-> 250, y |-> 60, type |-> "normal"],
      [id |-> "C", x |-> 400, y |-> 80, type |-> "normal"],
      [id |-> "D", x |-> 550, y |-> 60, type |-> "normal"],
      [id |-> "E", x |-> 80, y |-> 180, type |-> "hospital"],
      [id |-> "F", x |-> 220, y |-> 160, type |-> "normal"],
      [id |-> "G", x |-> 380, y |-> 180, type |-> "normal"],
      [id |-> "H", x |-> 540, y |-> 160, type |-> "normal"],
      [id |-> "I", x |-> 100, y |-> 280, type |-> "fire_station"],
      [id |-> "J", x |-> 250, y |-> 260, type |-> "normal"],
      [id |-> "K", x |-> 400, y |-> 280, type |-> "police"],
      [id |-> "L", x |-> 550, y |-> 260, type |-> "normal"],
      [id |-> "M", x |-> 80, y |-> 380, type |-> "normal"],
      [id |-> "N", x |-> 220, y |-> 360, type |-> "normal"],
      [id |-> "O", x |-> 380, y |-> 380, type |-> "normal"],
      [id |-> "P", x |-> 540, y |-> 360, type |-> "normal"]>>

edgeData ==
    << <<"A", "B", 15>>, <<"B", "C", 18>>, <<"C", "D", 20>>,
       <<"E", "F", 14>>, <<"F", "G", 16>>, <<"G", "H", 18>>,
       <<"I", "J", 15>>, <<"J", "K", 17>>, <<"K", "L", 19>>,
       <<"M", "N", 14>>, <<"N", "O", 16>>, <<"O", "P", 18>>,
       <<"A", "E", 12>>, <<"B", "F", 11>>, <<"C", "G", 13>>, <<"D", "H", 12>>,
       <<"E", "I", 11>>, <<"F", "J", 12>>, <<"G", "K", 13>>, <<"H", "L", 11>>,
       <<"I", "M", 12>>, <<"J", "N", 11>>, <<"K", "O", 13>>, <<"L", "P", 12>>,
       <<"A", "F", 18>>, <<"B", "G", 19>>, <<"C", "H", 20>>,
       <<"E", "J", 17>>, <<"F", "K", 18>>, <<"G", "L", 19>>,
       <<"I", "N", 16>>, <<"J", "O", 17>>, <<"K", "P", 18>> >>

\* The edges edgeData.forEach pushes, in the order it pushes them: for the
\* n-th road its edge from -> to, then its edge to -> from.  draw[k] is the
\* k-th value of Math.random() * 0.5, in steps of traffic.
Pushed(draw) ==
    [k \in 1..(2 * Len(edgeData)) |->
        LET road == edgeData[(k + 1) \div 2]
        IN  IF k % 2 = 1
            THEN [from |-> road[1], to |-> road[2], weight |-> road[3],
                  traffic |-> draw[k], blocked |-> FALSE]
            ELSE [from |-> road[2], to |-> road[1], weight |-> road[3],
                  traffic |-> draw[k], blocked |-> FALSE]]

\* if (!edges.has(key)) edges.set(key, []): the place of key among the
\* entries of edges is the place of its first push among the first pushes
EntryIndex(pushed, key) ==
    LET first(id) == CHOOSE k \in DOMAIN pushed :
                         /\ pushed[k].from = id
                         /\ \A j \in 1..(k - 1) : pushed[j].from # id
    IN  Cardinality({id \in {pushed[k].from : k \in DOMAIN pushed} :
                        first(id) <= first(key)})

\* edges.get(key).push(edge): the entry of key lists the edges pushed from
\* key, in the order of their pushes
generateCityGraph(draw) ==
    LET pushed == Pushed(draw)
        keys == {pushed[k].from : k \in DOMAIN pushed}
    IN  [nodes |-> nodeData,
         edges |-> [i \in 1..Cardinality(keys) |->
                      LET key == CHOOSE id \in keys : EntryIndex(pushed, id) = i
                      IN  [key |-> key,
                           list |-> SelectSeq(pushed, LAMBDA edge : edge.from = key)]]]

\* The values Math.random() * 0.5 takes, in steps of traffic: below 0.5
HalfDraws == {t \in 0..TrafficSteps : 2 * t < TrafficSteps}

\* The runs of Math.random() the model draws: one value for the edges
\* from -> to and one for the edges to -> from
CityDraws ==
    {[k \in 1..(2 * Len(edgeData)) |-> IF k % 2 = 1 THEN a ELSE b] :
        a \in HalfDraws, b \in HalfDraws}

CityGraphs == {generateCityGraph(draw) : draw \in CityDraws}

---------------------------------------------------------------------------
(* The engine: one call of dijkstra, aStar or bellmanFord on an input *)

\* emergencyVehicle === null, as a record of the shape of a vehicle
NoVehicle == [position |-> Null, path |-> <<>>]

\* The page as first rendered (the useState initial values)
InitPage ==
    /\ selectedStart = Null
    /\ selectedEnd = Null
    /\ pagePath = <<>>
    /\ visitedNodes = <<>>
    /\ pathDistance = Infinity
    /\ isAnimating = FALSE
    /\ animation = <<>>
    /\ sinceReset = FALSE
    /\ emergencyVehicle = NoVehicle
    /\ dispatches = <<>>

\* A PriorityQueue as constructed, nothing enqueued or dequeued yet
InitQueue ==
    /\ enqueued = EmptyMap
    /\ dequeued = Undefined
    /\ held = EmptyBag

\* No call of the engine made yet: the locals before a call starts
NoCall ==
    /\ pc = "idle"
    /\ distances = IdleLocals.distances
    /\ fScore = IdleLocals.fScore
    /\ previous = IdleLocals.previous
    /\ visited = IdleLocals.visited
    /\ pq = IdleLocals.pq
    /\ allEdges = IdleLocals.allEdges
    /\ pass = IdleLocals.pass
    /\ edgeIndex = IdleLocals.edgeIndex
    /\ hasNegativeCycle = IdleLocals.hasNegativeCycle
    /\ path = IdleLocals.path
    /\ current = IdleLocals.current
    /\ result = IdleLocals.result

\* A call's inputs, and its locals before it starts
InitCall(graphs, starts) ==
    /\ graph \in graphs
    /\ startId \in starts
    /\ endId \in NodeIds(graph)
    /\ isEmergency \in BOOLEAN
    /\ algorithm = "none"
    /\ InitPage
    /\ InitQueue
    /\ NoCall

Init == InitCall(FixtureGraphs, {"A", "D"})

Inputs == <<graph, startId, endId, isEmergency>>

\* The adjacency lists emptied by the step
GraphEmptied(g) == [g EXCEPT !.edges = <<>>]

\* The graph as a step of a call leaves it.  The functions only read it:
\* graph.nodes.forEach, graph.nodes.get, graph.nodes.size, graph.edges.get,
\* graph.edges.forEach; edge.weight is copied to the local effectiveWeight
\* before traffic is applied, and allEdges holds new objects.
GraphRead(g) == g

\* What a step of a call leaves alone: its arguments, the page's state
CallFrame ==
    /\ graph' = GraphRead(graph)
    /\ UNCHANGED <<startId, endId, isEmergency>>
    /\ UNCHANGED <<pageVars, queueVars>>

\* find_path: the call of the selected function, up to its loop
CallDijkstra ==
    /\ pc = "idle"
    /\ algorithm' = "dijkstra"
    /\ \E L \in {dijkstraInit(graph, startId, endId, isEmergency)} : SetLocals(L)
    /\ CallFrame

CallAStar ==
    /\ pc = "idle"
    /\ algorithm' = "astar"
    /\ \E L \in {aStarInit(graph, startId, endId, isEmergency)} : SetLocals(L)
    /\ CallFrame

CallBellmanFord ==
    /\ pc = "idle"
    /\ algorithm' = "bellmanford"
    /\ \E L \in {bellmanFordInit(graph, startId, endId, isEmergency)} : SetLocals(L)
    /\ CallFrame

\* One iteration of dijkstra's while (!pq.isEmpty())
DijkstraLoop ==
    /\ pc = "loop"
    /\ algorithm = "dijkstra"
    /\ \E L \in {dijkstraLoop(graph, startId, endId, isEmergency, Locals)} : SetLocals(L)
    /\ CallFrame
    /\ UNCHANGED algorithm

\* One iteration of aStar's while (!pq.isEmpty())
AStarLoop ==
    /\ pc = "loop"
    /\ algorithm = "astar"
    /\ \E L \in {aStarLoop(graph, startId, endId, isEmergency, Locals)} : SetLocals(L)
    /\ CallFrame
    /\ UNCHANGED algorithm

\* One step of bellmanFord's passes over allEdges
BellmanFordLoop ==
    /\ pc = "loop"
    /\ algorithm = "bellmanford"
    /\ \E L \in {bellmanFordLoop(graph, Locals)} : SetLocals(L)
    /\ CallFrame
    /\ UNCHANGED algorithm

\* bellmanFord's check for negative cycles
BellmanFordCheck ==
    /\ pc = "check"
    /\ \E L \in {bellmanFordCheck(endId, Locals)} : SetLocals(L)
    /\ CallFrame
    /\ UNCHANGED algorithm

\* One iteration of the reconstruction loop, or the return
Reconstruct ==
    /\ pc = "reconstruct"
    /\ \E L \in {reconstruct(graph, startId, endId, Locals,
                            ResultRest(algorithm, Locals))} : SetLocals(L)
    /\ CallFrame
    /\ UNCHANGED algorithm

Next ==
    \/ CallDijkstra
    \/ CallAStar
    \/ CallBellmanFord
    \/ DijkstraLoop
    \/ AStarLoop
    \/ BellmanFordLoop
    \/ BellmanFordCheck
    \/ Reconstruct

Spec == Init /\ [][Next]_vars

\* The calls on the cycle fixture.  The engine is synchronous: a call that
\* can take a step takes it.
CycleGraphs ==
    {[nodes |-> FixtureNodes,
      edges |-> FixtureEdges(Triangle, w, [edge |-> 0, kind |-> "clear"])] :
        w \in [1..EdgeCount(Triangle, 1) -> {-5, 1}]}

InitCycle == InitCall(CycleGraphs, {"A"})

FairSpec == InitCycle /\ [][Next]_vars /\ WF_vars(Next)

\* The calls with an id that is the id of no node, on graphs with dangling
\* edges
InitStray ==
    /\ graph \in StrayGraphs
    /\ startId \in {"A", "Z"}
    /\ endId \in {"C", "D", "Z"}
    /\ isEmergency \in BOOLEAN
    /\ algorithm = "none"
    /\ InitPage
    /\ InitQueue
    /\ NoCall

StraySpec == InitStray /\ [][Next]_vars

\* The calls on the city's graph as generated
InitCity == InitCall(CityGraphs, {"A", "E"})

CitySpec == InitCity /\ [][Next]_vars

---------------------------------------------------------------------------
(* The page (Index): its handlers on the graph *)

\* edges.find(e => e.to === id): the place of the first such edge, 0 for
\* undefined
FindTo(list, id) ==
    IF \E i \in DOMAIN list : list[i].to = id
    THEN CHOOSE i \in DOMAIN list :
             list[i].to = id /\ \A j \in 1..(i - 1) : list[j].to # id
    ELSE 0

\* if (edge) edge.blocked = !edge.blocked, edge the first edge to id
FlipBlocked(list, id) ==
    IF FindTo(list, id) = 0 THEN list
    ELSE [list EXCEPT ![FindTo(list, id)].blocked = ~@]

\* newEdges.set(key, list): in place for a key the Map holds, a new last
\* entry otherwise
EdgesSet(edges, key, list) ==
    IF \E i \in DOMAIN edges : edges[i].key = key
    THEN [i \in DOMAIN edges |->
             IF edges[i].key = key THEN [edges[i] EXCEPT !.list = list] ELSE edges[i]]
    ELSE Append(edges, [key |-> key, list |-> list])

\* Only the edge to -> from toggled
handleEdgeClickReverseOnly(g, from, to) ==
    [g EXCEPT !.edges =
        EdgesSet(EdgesSet(g.edges, from, EdgesGet(g, from)), to,
                 FlipBlocked(EdgesGet(g, to), from))]

\* Only the edge from -> to toggled
handleEdgeClickForwardOnly(g, from, to) ==
    [g EXCEPT !.edges =
        EdgesSet(EdgesSet(g.edges, from, FlipBlocked(EdgesGet(g, from), to)), to,
                 EdgesGet(g, to))]

\* The updater handleEdgeClick(from, to) hands to setGraph.  fromEdges and
\* toEdges are copies of the two lists that share their edge objects with
\* them: for from = to the two finds return one object, toggled twice.
handleEdgeClick(g, from, to) ==
    LET fromEdges == FlipBlocked(EdgesGet(g, from), to)
        toEdges == IF from = to THEN FlipBlocked(fromEdges, from)
                   ELSE FlipBlocked(EdgesGet(g, to), from)
    IN  [g EXCEPT !.edges =
            EdgesSet(EdgesSet(g.edges, from,
                              IF from = to THEN toEdges ELSE fromEdges),
                     to, toEdges)]

\* The reference fixture: nodes A to D on a line, the roads A-B and B-D of
\* weight 10 and the direct road A-D of weight 30, each road its two directed
\* edges, traffic 0, nothing blocked; C has no road and no adjacency list.
RoadFixture ==
    LET Road(from, to, w) ==
            [from |-> from, to |-> to, weight |-> w, traffic |-> 0, blocked |-> FALSE]
    IN  [nodes |-> <<[id |-> "A", x |-> 0, y |-> 0, type |-> "normal"],
                     [id |-> "B", x |-> 10, y |-> 0, type |-> "normal"],
                     [id |-> "C", x |-> 15, y |-> 0, type |-> "normal"],
                     [id |-> "D", x |-> 20, y |-> 0, type |-> "normal"]>>,
         edges |-> <<[key |-> "A", list |-> <<Road("A", "B", 10), Road("A", "D", 30)>>],
                     [key |-> "B", list |-> <<Road("B", "A", 10), Road("B", "D", 10)>>],
                     [key |-> "D", list |-> <<Road("D", "B", 10), Road("D", "A", 30)>>]>>]

\* A click on the road between two ids, no call of the engine in progress
HandleEdgeClick(ids) ==
    /\ pc = "idle"
    /\ \E from, to \in ids : graph' = handleEdgeClick(graph, from, to)
    /\ UNCHANGED <<startId, endId, isEmergency, algorithm, callVars>>
    /\ UNCHANGED <<pageVars, queueVars>>

\* The ids of the fixture's toggles: its nodes and "Z", the id of no node
RoadIds == {"A", "B", "C", "D", "Z"}

ToggleRoad == HandleEdgeClick(RoadIds)

RoadNext == ToggleRoad \/ Next

\* Toggles of the fixture's roads, then a call on the graph they leave
RoadSpec == InitCall({RoadFixture}, {"A", "B"}) /\ [][RoadNext]_vars

---------------------------------------------------------------------------
(* The page (Index): selection, Find Optimal Route, the animation of the    *)
(* result, Reset Map.  A handler runs to its end before any other handler  *)
(* or timer runs; the call handleFindPath makes of the engine is taken in   *)
(* the engine's steps, during which pc # "idle" keeps every other handler   *)
(* and timer out.                                                          *)

\* The nodes clicked on the map
NodeClicks == {"A", "F"}

\* The graphs generateCityGraph() gives the page: one value of
\* Math.random() * 0.5 for every edge
PageGraphs ==
    {generateCityGraph([k \in 1..(2 * Len(edgeData)) |-> t]) : t \in HalfDraws}

InitIndex ==
    /\ graph \in PageGraphs
    /\ startId = Null
    /\ endId = Null
    /\ isEmergency = FALSE
    /\ algorithm = "dijkstra"
    /\ InitPage
    /\ InitQueue
    /\ NoCall

\* The second branch taken for any node, the start node included
SelectsEndOfAny(start, end, nodeId) == end = Null

\* The condition of the second branch: !selectedEnd && nodeId !== selectedStart
SelectsEnd(start, end, nodeId) == end = Null /\ nodeId # start

\* handleNodeClick(nodeId)
HandleNodeClick ==
    /\ pc = "idle"
    /\ \E nodeId \in NodeClicks :
          IF selectedStart = Null
          THEN /\ selectedStart' = nodeId
               /\ UNCHANGED <<selectedEnd, pagePath, visitedNodes, pathDistance>>
          ELSE IF SelectsEnd(selectedStart, selectedEnd, nodeId)
          THEN /\ selectedEnd' = nodeId
               /\ UNCHANGED <<selectedStart, pagePath, visitedNodes, pathDistance>>
          ELSE /\ selectedStart' = nodeId
               /\ selectedEnd' = Null
               /\ pagePath' = <<>>
               /\ visitedNodes' = <<>>
               /\ pathDistance' = Infinity
    /\ UNCHANGED <<isAnimating, animation, sinceReset, emergencyVars>>
    /\ UNCHANGED <<graph, startId, endId, isEmergency, algorithm, callVars, queueVars>>

\* onAlgorithmChange: setAlgorithm
SetAlgorithm ==
    /\ pc = "idle"
    /\ \E a \in {"dijkstra", "astar", "bellmanford"} : a # algorithm /\ algorithm' = a
    /\ UNCHANGED <<graph, startId, endId, isEmergency, callVars, pageVars, queueVars>>

\* handleFindPath up to its call of the engine.  The button is disabled
\* without a selection and while isAnimating.
HandleFindPath ==
    /\ pc = "idle"
    /\ selectedStart # Null /\ selectedEnd # Null /\ ~isAnimating
    /\ startId' = selectedStart
    /\ endId' = selectedEnd
    /\ isEmergency' = FALSE
    /\ \E L \in {CASE algorithm = "astar" ->
                          aStarInit(graph, selectedStart, selectedEnd, FALSE)
                     [] algorithm = "bellmanford" ->
                          bellmanFordInit(graph, selectedStart, selectedEnd, FALSE)
                     [] OTHER ->
                          dijkstraInit(graph, selectedStart, selectedEnd, FALSE)} :
          SetLocals(L)
    /\ sinceReset' = FALSE
    /\ UNCHANGED <<selectedStart, selectedEnd, pagePath, visitedNodes, pathDistance,
                   isAnimating, animation, emergencyVars>>
    /\ UNCHANGED <<graph, algorithm, queueVars>>

\* animatePath(pathToAnimate, visited) up to its first await
animatePath(pathToAnimate, vis) ==
    /\ isAnimating' = TRUE
    /\ visitedNodes' = <<>>
    /\ pagePath' = <<>>
    /\ animation' = Append(animation,
                           [pathToAnimate |-> pathToAnimate, visited |-> vis,
                            phase |-> IF Len(vis) > 0 THEN "visited" ELSE "pause",
                            i |-> 1])

\* handleFindPath from the return of the engine's call on
FindPathReturn ==
    /\ pc = "done"
    /\ IF algorithm = "bellmanford" /\ result.hasNegativeCycle
       THEN UNCHANGED <<pathDistance, isAnimating, visitedNodes, pagePath, animation>>
       ELSE IF Len(result.path) = 0
       THEN UNCHANGED <<pathDistance, isAnimating, visitedNodes, pagePath, animation>>
       ELSE /\ pathDistance' = result.distance
            /\ animatePath(result.path,
                           IF algorithm = "bellmanford" THEN <<>> ELSE result.visited)
    /\ SetLocals(IdleLocals)
    /\ startId' = Null
    /\ endId' = Null
    /\ UNCHANGED <<selectedStart, selectedEnd, sinceReset, emergencyVars>>
    /\ UNCHANGED <<graph, isEmergency, algorithm, queueVars>>

\* The animation without its k-th call
RemoveAt(seq, k) == SubSeq(seq, 1, k - 1) \o SubSeq(seq, k + 1, Len(seq))

\* A timer of an animatePath call in flight fires: the call runs from that
\* await to its next one, or to its end
AnimateStep ==
    /\ pc = "idle"
    /\ \E k \in DOMAIN animation :
          LET a == animation[k]
              last == a.i >= Len(IF a.phase = "visited" THEN a.visited
                                 ELSE a.pathToAnimate)
          IN  CASE a.phase = "visited" ->
                       /\ visitedNodes' = Append(visitedNodes, a.visited[a.i])
                       /\ animation' =
                              [animation EXCEPT ![k] =
                                  IF last THEN [a EXCEPT !.phase = "pause", !.i = 1]
                                  ELSE [a EXCEPT !.i = @ + 1]]
                       /\ UNCHANGED <<pagePath, isAnimating>>
                [] a.phase = "pause" ->
                       /\ IF Len(a.pathToAnimate) > 0
                          THEN /\ animation' = [animation EXCEPT ![k].phase = "path"]
                               /\ UNCHANGED isAnimating
                          ELSE /\ animation' = RemoveAt(animation, k)
                               /\ isAnimating' = FALSE
                       /\ UNCHANGED <<pagePath, visitedNodes>>
                [] a.phase = "path" ->
                       /\ pagePath' = Append(pagePath, a.pathToAnimate[a.i])
                       /\ IF last
                          THEN /\ animation' = RemoveAt(animation, k)
                               /\ isAnimating' = FALSE
                          ELSE /\ animation' = [animation EXCEPT ![k].i = @ + 1]
                               /\ UNCHANGED isAnimating
                       /\ UNCHANGED visitedNodes
    /\ UNCHANGED <<selectedStart, selectedEnd, pathDistance, sinceReset, emergencyVars>>
    /\ UNCHANGED <<graph, startId, endId, isEmergency, algorithm, callVars, queueVars>>

\* handleReset: a new graph, selection and display cleared
HandleReset ==
    /\ pc = "idle"
    /\ graph' \in PageGraphs
    /\ selectedStart' = Null
    /\ selectedEnd' = Null
    /\ pagePath' = <<>>
    /\ visitedNodes' = <<>>
    /\ pathDistance' = Infinity
    /\ sinceReset' = TRUE
    /\ emergencyVehicle' = NoVehicle
    /\ UNCHANGED <<isAnimating, animation, dispatches>>
    /\ UNCHANGED <<startId, endId, isEmergency, algorithm, callVars, queueVars>>

IndexNext ==
    \/ HandleNodeClick
    \/ SetAlgorithm
    \/ HandleFindPath
    \/ DijkstraLoop
    \/ AStarLoop
    \/ BellmanFordLoop
    \/ BellmanFordCheck
    \/ Reconstruct
    \/ FindPathReturn
    \/ AnimateStep
    \/ HandleReset

IndexSpec == InitIndex /\ [][IndexNext]_vars

---------------------------------------------------------------------------
(* A PriorityQueue in the hands of a user that enqueues and dequeues in any *)
(* order.  Each call of enqueue brings a value of its own, so that the      *)
(* priority a dequeued value was enqueued with is known.                    *)

InitQueueUser ==
    /\ graph = RoadFixture
    /\ startId = "A"
    /\ endId = "A"
    /\ isEmergency = FALSE
    /\ algorithm = "none"
    /\ InitPage
    /\ InitQueue
    /\ NoCall

\* What the queue's user leaves alone: everything but the heap
QueueFrame ==
    /\ UNCHANGED <<graph, startId, endId, isEmergency, algorithm, pageVars>>
    /\ UNCHANGED <<pc, distances, fScore, previous, visited, allEdges, pass,
                   edgeIndex, hasNegativeCycle, path, current, result>>

\* The entry a call of dequeue that returned value took out of the bag: the
\* one of least priority among the entries that carry the value
ReturnedEntry(bag, value) ==
    CHOOSE entry \in BagToSet(bag) :
        /\ entry.value = value
        /\ \A other \in BagToSet(bag) :
               other.value = value => entry.priority <= other.priority

\* The bag after enqueue(value, priority)
HeldAfterEnqueue(bag, value, priority) ==
    bag (+) SetToBag({[priority |-> priority, value |-> value]})

\* The bag after a call of dequeue that returned value
HeldAfterDequeue(bag, value) == bag (-) SetToBag({ReturnedEntry(bag, value)})

\* pq.enqueue(value, priority); it returns nothing
Enqueue ==
    /\ Cardinality(DOMAIN enqueued) < MaxEnqueues
    /\ \E priority \in 0..MaxPriority :
          LET value == ToString(Cardinality(DOMAIN enqueued) + 1)
          IN  /\ pq' = enqueue(pq, value, priority)
              /\ enqueued' = MapSet(enqueued, value, Num(priority))
              /\ held' = HeldAfterEnqueue(held, value, priority)
    /\ dequeued' = Undefined
    /\ QueueFrame

\* pq.dequeue(): undefined on an empty heap
Dequeue ==
    /\ IF isEmpty(pq)
       THEN pq' = pq /\ dequeued' = Undefined /\ held' = held
       ELSE /\ pq' = dequeue(pq).heap
            /\ dequeued' = [t |-> "value", v |-> dequeue(pq).value]
            /\ held' = HeldAfterDequeue(held, dequeue(pq).value)
    /\ UNCHANGED enqueued
    /\ QueueFrame

QueueNext == Enqueue \/ Dequeue

QueueSpec == InitQueueUser /\ [][QueueNext]_vars

\* The values of a user that enqueues the same value more than once
QueueValues == {"a", "b"}

\* pq.enqueue(value, priority) with a value that may be in the queue already
EnqueueAgain ==
    /\ Len(pq) < MaxEnqueues
    /\ \E value \in QueueValues, priority \in 0..MaxPriority :
          /\ pq' = enqueue(pq, value, priority)
          /\ held' = HeldAfterEnqueue(held, value, priority)
    /\ dequeued' = Undefined
    /\ UNCHANGED enqueued
    /\ QueueFrame

BagNext == EnqueueAgain \/ Dequeue

BagSpec == InitQueueUser /\ [][BagNext]_vars

---------------------------------------------------------------------------
(* The vocabulary of the properties, stated on the graph alone: what a     *)
(* call may traverse, what a path costs, what is reachable.  Costs are in  *)
(* steps of distance.                                                      *)

AllGraphEdges(g) == UNION {Range(g.edges[i].list) : i \in DOMAIN g.edges}

\* An edge a call in mode em may take: unblocked, or any edge in an emergency
Usable(edge, em) == em \/ ~edge.blocked

\* weight * (1 + 2 * traffic) in normal mode, weight in an emergency
Cost(edge, em) ==
    IF em THEN edge.weight * TrafficSteps
    ELSE edge.weight * TrafficSteps + 2 * edge.weight * edge.traffic

UsableEdges(g, em) ==
    {ed \in AllGraphEdges(g) : Usable(ed, em) /\ ed.from \in NodeIds(g) /\ ed.to \in NodeIds(g)}

NonNegative(g) == \A ed \in AllGraphEdges(g) : ed.weight >= 0

SetMin(S) == CHOOSE x \in S : \A y \in S : x <= y

\* The simple paths that extend p to e along the edges E
RECURSIVE PathsFrom(_, _, _)
PathsFrom(E, p, e) ==
    IF p[Len(p)] = e THEN {p}
    ELSE UNION {PathsFrom(E, Append(p, ed.to), e) :
                   ed \in {x \in E : x.from = p[Len(p)] /\ x.to \notin Range(p)}}

SimplePaths(g, s, e, em) ==
    IF s \in NodeIds(g) THEN PathsFrom(UsableEdges(g, em), <<s>>, e) ELSE {}

Reachable(g, s, e, em) == SimplePaths(g, s, e, em) # {}

\* The cheapest usable edge from u to v
HopCost(g, u, v, em) ==
    SetMin({Cost(ed, em) : ed \in {x \in UsableEdges(g, em) : x.from = u /\ x.to = v}})

RECURSIVE PathCostFrom(_, _, _, _)
PathCostFrom(g, p, k, em) ==
    IF k >= Len(p) THEN 0
    ELSE HopCost(g, p[k], p[k + 1], em) + PathCostFrom(g, p, k + 1, em)

PathCost(g, p, em) == PathCostFrom(g, p, 1, em)

\* The minimum cost of a path from s to e, e reachable from s
MinCost(g, s, e, em) == SetMin({PathCost(g, p, em) : p \in SimplePaths(g, s, e, em)})

MinPaths(g, s, e, em) ==
    {p \in SimplePaths(g, s, e, em) : PathCost(g, p, em) = MinCost(g, s, e, em)}

\* The square of the straight-line distance between nodes n and m, in steps
Line2(g, n, m) ==
    LET a == NodeOf(g, n)
        b == NodeOf(g, m)
    IN  ((a.x - b.x) * (a.x - b.x) + (a.y - b.y) * (a.y - b.y))
        * TrafficSteps * TrafficSteps

\* The straight-line distance to e never exceeds the remaining cost
Admissible(g, e, em) ==
    \A n \in NodeIds(g) :
        Reachable(g, n, e, em) =>
            Line2(g, n, e) <= MinCost(g, n, e, em) * MinCost(g, n, e, em)

\* sqrt(a) <= w + sqrt(b), for w >= 0
SqrtLeq(a, w, b) ==
    LET l == a - b - w * w
    IN  l <= 0 \/ l * l <= 4 * w * w * b

\* Along every usable edge the straight-line distance to e drops by no more
\* than the edge costs
Consistent(g, e, em) ==
    \A ed \in UsableEdges(g, em) :
        SqrtLeq(Line2(g, ed.from, e), Cost(ed, em), Line2(g, ed.to, e))

\* Some cycle of usable edges of negative cost can be reached from s
NegativeCycleReachable(g, s, em) ==
    \E ed \in UsableEdges(g, em) :
        /\ \E p \in SimplePaths(g, ed.to, ed.from, em) :
              PathCost(g, p, em) + Cost(ed, em) < 0
        /\ Reachable(g, s, ed.from, em)

\* The graph with every edge unblocked and every traffic value 0
Cleared(g) ==
    [g EXCEPT !.edges =
        [i \in DOMAIN g.edges |->
            [g.edges[i] EXCEPT !.list =
                [j \in DOMAIN g.edges[i].list |->
                    [g.edges[i].list[j] EXCEPT !.traffic = 0, !.blocked = FALSE]]]]]

\* The call of the function named alg, run to its end
RunOf(alg, g, s, e, em) ==
    CASE alg = "dijkstra" -> dijkstra(g, s, e, em)
      [] alg = "astar" -> aStar(g, s, e, em)
      [] alg = "bellmanford" -> bellmanFord(g, s, e, em)

\* The graph without its dangling edges, those whose target is the id of no
\* node; every entry and every other edge stays in its place
WithoutDangling(g) ==
    [g EXCEPT !.edges =
        [i \in DOMAIN g.edges |->
            [g.edges[i] EXCEPT !.list =
                SelectSeq(g.edges[i].list, LAMBDA ed : ed.to \in NodeIds(g))]]]

Returned == pc = "done"
KnownIds == startId \in NodeIds(graph) /\ endId \in NodeIds(graph)

---------------------------------------------------------------------------
(* The claims *)

\* C1: for each of the three functions, a query whose source and destination
\* are the same node of the graph returns the path of that one id and
\* distance 0.
C1_SameNodeQuery ==
    (Returned /\ startId = endId /\ KnownIds)
        => (result.path = <<startId>> /\ result.distance = Num(0))

\* C2: every call returns: started on any of the inputs, a call of dijkstra,
\* aStar or bellmanFord reaches its return, the graphs with a negative cycle
\* included.
C2_EveryCallReturns == <>(pc = "done")

\* C3: on a graph without negative weights, with the destination reachable,
\* dijkstra returns the minimum over all paths of the sum of the effective
\* weights.
C3_DijkstraMinimum ==
    (Returned /\ algorithm = "dijkstra" /\ NonNegative(graph) /\ KnownIds
     /\ Reachable(graph, startId, endId, isEmergency))
        => result.distance = Num(MinCost(graph, startId, endId, isEmergency))

\* C4: on a graph without negative weights on which the straight-line
\* heuristic is admissible for the destination, aStar returns dijkstra's
\* distance.
C4_AdmissibleAStar ==
    (Returned /\ algorithm = "astar" /\ NonNegative(graph) /\ KnownIds
     /\ Admissible(graph, endId, isEmergency))
        => result.distance =
               dijkstra(graph, startId, endId, isEmergency).result.distance

\* C4 under the stronger hypothesis that aStar's closed list (visited, with
\* no node taken up again) asks for: on a graph without negative weights on
\* which the straight-line heuristic is consistent for the destination (along
\* every usable edge it drops by no more than the edge's effective weight),
\* aStar returns dijkstra's distance.
C4_ConsistentAStar ==
    (Returned /\ algorithm = "astar" /\ NonNegative(graph) /\ KnownIds
     /\ Consistent(graph, endId, isEmergency))
        => result.distance =
               dijkstra(graph, startId, endId, isEmergency).result.distance

\* C4: aStar has returned a route of three nodes or more where a second
\* route existed, the heuristic consistent.
C4_Witness ==
    /\ Returned /\ algorithm = "astar" /\ NonNegative(graph)
    /\ Consistent(graph, endId, isEmergency)
    /\ Len(result.path) >= 3
    /\ Cardinality(SimplePaths(graph, startId, endId, isEmergency)) >= 2

\* C5: on the city's graph aStar returns dijkstra's distance for every
\* source, destination and mode.
C5_CityAStarMinimum ==
    (Returned /\ algorithm = "astar")
        => result.distance =
               dijkstra(graph, startId, endId, isEmergency).result.distance

\* C6: on a graph without negative weights bellmanFord returns dijkstra's
\* distance.
C6_BellmanFordDistance ==
    (Returned /\ algorithm = "bellmanford" /\ NonNegative(graph))
        => result.distance =
               dijkstra(graph, startId, endId, isEmergency).result.distance

\* C6: bellmanFord has returned a route of all four nodes on a graph without
\* negative weights.
C6_Witness ==
    /\ Returned /\ algorithm = "bellmanford" /\ NonNegative(graph)
    /\ Len(result.path) = 4
    /\ result.distance.t = "num"

\* C7 as stated: on a graph without negative weights bellmanFord returns
\* dijkstra's path, also when several minimum-cost paths exist.
C7_SamePath ==
    (Returned /\ algorithm = "bellmanford" /\ NonNegative(graph))
        => result.path = dijkstra(graph, startId, endId, isEmergency).result.path

\* C7 as amended: on a graph without negative weights bellmanFord returns
\* dijkstra's path whenever there is at most one minimum-cost path from the
\* source to the destination.
C7_SamePathWhenUnique ==
    (Returned /\ algorithm = "bellmanford" /\ NonNegative(graph)
     /\ Cardinality(MinPaths(graph, startId, endId, isEmergency)) <= 1)
        => result.path = dijkstra(graph, startId, endId, isEmergency).result.path

\* C7: bellmanFord has returned the one cheapest of two routes or more.
C7_Witness ==
    /\ Returned /\ algorithm = "bellmanford" /\ NonNegative(graph)
    /\ Cardinality(SimplePaths(graph, startId, endId, isEmergency)) >= 2
    /\ Cardinality(MinPaths(graph, startId, endId, isEmergency)) = 1
    /\ Len(result.path) >= 3

\* C8: once bellmanFord has made its check, hasNegativeCycle is true exactly
\* when the edges usable in the call's mode hold a cycle of negative total
\* effective weight that can be reached from the source.
C8_FlagIffNegativeCycle ==
    (algorithm = "bellmanford" /\ pc \in {"reconstruct", "done"} /\ KnownIds)
        => (hasNegativeCycle
               <=> NegativeCycleReachable(graph, startId, isEmergency))

\* C8: bellmanFord from A has flagged the cycle A -> B -> C -> A, each edge of
\* weight -5.
C8_Witness ==
    /\ algorithm = "bellmanford" /\ pc = "reconstruct" /\ startId = "A"
    /\ hasNegativeCycle
    /\ \A ed \in UsableEdges(graph, isEmergency) :
          ed.to # "D" => (ed.weight = -5 /\ Cost(ed, isEmergency) = -5 * TrafficSteps)
    /\ Cardinality({ed \in UsableEdges(graph, isEmergency) : ed.to # "D"}) = 3

\* C9: when source and destination are distinct nodes and no path of usable
\* edges joins them, each function returns the empty path and Infinity.
C9_Unreachable ==
    (Returned /\ KnownIds /\ startId # endId
     /\ ~Reachable(graph, startId, endId, isEmergency))
        => (result.path = <<>> /\ result.distance = Infinity)

\* C9: a call has returned for a destination cut off by a blocked edge only.
C9_Witness ==
    /\ Returned /\ KnownIds /\ startId # endId /\ ~isEmergency
    /\ ~Reachable(graph, startId, endId, FALSE)
    /\ Reachable(graph, startId, endId, TRUE)
    /\ result.path = <<>>

\* C10: what a call returns in an emergency is what the same function
\* returns, not in an emergency, on the graph with every edge unblocked and
\* every traffic value 0.
C10_EmergencyIgnores ==
    (Returned /\ isEmergency)
        => LET plain == RunOf(algorithm, Cleared(graph), startId, endId, FALSE)
           IN  /\ plain.pc = "done"
               /\ result.path = plain.result.path
               /\ result.distance = plain.result.distance

\* C10: an emergency call has returned a route over a graph with every edge
\* blocked.
C10_Witness ==
    /\ Returned /\ isEmergency
    /\ \A ed \in AllGraphEdges(graph) : ed.blocked
    /\ Len(result.path) >= 3

\* C11: for each of the three functions, a call in which the source or the
\* destination (or both, the two possibly equal) is the id of no node returns
\* the empty path and distance Infinity.
C11_UnknownId ==
    (Returned /\ ~KnownIds) => (result.path = <<>> /\ result.distance = Infinity)

\* C12: an edge whose target is the id of no node is skipped: what a call
\* returns (path and distance) is what the same function returns on the
\* graph with every such edge removed, and both calls return.
C12_DanglingSkipped ==
    Returned
        => LET plain == RunOf(algorithm, WithoutDangling(graph), startId, endId,
                              isEmergency)
           IN  /\ plain.pc = "done"
               /\ result.path = plain.result.path
               /\ result.distance = plain.result.distance

\* C12: a call from A has returned a route to D after meeting, at A, an edge
\* it may take whose target is the id of no node.
C12_Witness ==
    /\ Returned /\ startId = "A" /\ endId = "D"
    /\ \E ed \in AllGraphEdges(graph) :
          ed.from = "A" /\ ed.to \notin NodeIds(graph) /\ Usable(ed, isEmergency)
    /\ Len(result.path) >= 3
    /\ result.distance.t = "num"

\* C13: a non-empty path returned by any of the three functions starts at
\* the source, ends at the destination, and each of its steps u, v is an edge
\* u -> v of the graph that the call's mode may take: unblocked unless the
\* call is an emergency call.
C13_PathValid ==
    (Returned /\ result.path # <<>>)
        => /\ result.path[1] = startId
           /\ result.path[Len(result.path)] = endId
           /\ \A k \in 1..(Len(result.path) - 1) :
                 \E ed \in AllGraphEdges(graph) :
                     /\ ed.from = result.path[k]
                     /\ ed.to = result.path[k + 1]
                     /\ (isEmergency \/ ~ed.blocked)

\* C13: a call that is no emergency call has returned a route of three nodes
\* or more from a source one of whose edges is blocked.
C13_Witness ==
    /\ Returned /\ ~isEmergency
    /\ Len(result.path) >= 3
    /\ \E ed \in AllGraphEdges(graph) : ed.from = startId /\ ed.blocked

\* At most one edge per ordered pair of nodes
SimpleGraph(g) ==
    \A i \in DOMAIN g.edges :
        \A j, k \in DOMAIN g.edges[i].list :
            g.edges[i].list[j].to = g.edges[i].list[k].to => j = k

\* The sum of the effective weights of the edges along the path p
RECURSIVE AlongPath(_, _, _, _)
AlongPath(g, p, k, em) ==
    IF k >= Len(p) THEN 0
    ELSE LET ed == CHOOSE x \in AllGraphEdges(g) : x.from = p[k] /\ x.to = p[k + 1]
         IN  Cost(ed, em) + AlongPath(g, p, k + 1, em)

\* C14: on a graph without negative weights and with at most one edge per
\* ordered pair of nodes, the distance returned with a non-empty path is the
\* sum of the effective weights of the edges along that path.
C14_DistanceOfPath ==
    (Returned /\ result.path # <<>> /\ NonNegative(graph) /\ SimpleGraph(graph))
        => result.distance = Num(AlongPath(graph, result.path, 1, isEmergency))

\* C14 on the paths whose edges sum to more than 0.
C14_PositiveDistanceOfPath ==
    (Returned /\ result.path # <<>> /\ NonNegative(graph) /\ SimpleGraph(graph)
     /\ AlongPath(graph, result.path, 1, isEmergency) > 0)
        => result.distance = Num(AlongPath(graph, result.path, 1, isEmergency))

\* C14 on the paths whose edges sum to more than 0, for dijkstra and
\* bellmanFord.
C14_PositiveDistanceOfPathNoAStar ==
    (Returned /\ result.path # <<>> /\ NonNegative(graph) /\ SimpleGraph(graph)
     /\ algorithm # "astar"
     /\ AlongPath(graph, result.path, 1, isEmergency) > 0)
        => result.distance = Num(AlongPath(graph, result.path, 1, isEmergency))

\* The roads with a blocked edge: the pairs of ends of the blocked edges
BlockedRoads(g) == {{ed.from, ed.to} : ed \in {x \in AllGraphEdges(g) : x.blocked}}

\* C15: on the reference fixture dijkstra from A to D, no emergency, returns
\* path A, B, D and distance 20; with the road A-B toggled to blocked it
\* returns path A, D and distance 30.
C15_FixtureScenario ==
    (Returned /\ algorithm = "dijkstra" /\ startId = "A" /\ endId = "D"
     /\ ~isEmergency)
        => /\ BlockedRoads(graph) = {}
                 => (result.path = <<"A", "B", "D">>
                     /\ result.distance = Num(20 * TrafficSteps))
           /\ BlockedRoads(graph) = {{"A", "B"}}
                 => (result.path = <<"A", "D">>
                     /\ result.distance = Num(30 * TrafficSteps))

\* C15: dijkstra from A to D has returned on the fixture whose road A-B,
\* and no other, has been toggled to blocked.
C15_Witness ==
    /\ Returned /\ algorithm = "dijkstra" /\ startId = "A" /\ endId = "D"
    /\ ~isEmergency
    /\ BlockedRoads(graph) = {{"A", "B"}}
    /\ \A ed \in AllGraphEdges(graph) : ed.blocked <=> {ed.from, ed.to} = {"A", "B"}
    /\ result.path = <<"A", "D">>

RoadBetween(g, from, to) ==
    \E ed \in AllGraphEdges(g) : {ed.from, ed.to} = {from, to}

\* after is g with blocked flipped on the edges from -> to and to -> from and
\* nothing else changed
Toggled(g, after, from, to) ==
    /\ after.nodes = g.nodes
    /\ DOMAIN after.edges = DOMAIN g.edges
    /\ \A i \in DOMAIN g.edges :
          /\ after.edges[i].key = g.edges[i].key
          /\ DOMAIN after.edges[i].list = DOMAIN g.edges[i].list
          /\ \A j \in DOMAIN g.edges[i].list :
                LET ed == g.edges[i].list[j]
                IN  after.edges[i].list[j] =
                        IF (ed.from = from /\ ed.to = to) \/ (ed.from = to /\ ed.to = from)
                        THEN [ed EXCEPT !.blocked = ~ed.blocked]
                        ELSE ed

\* C17: handleEdgeClick(from, to) flips blocked on the edge from -> to and on
\* the edge to -> from and changes nothing else of the graph; when no road
\* joins the two ids it leaves the graph, node mapping and edge mapping, as
\* it was.
C17_Toggle ==
    \A from, to \in RoadIds :
        IF from # to /\ RoadBetween(graph, from, to)
        THEN Toggled(graph, handleEdgeClick(graph, from, to), from, to)
        ELSE handleEdgeClick(graph, from, to) = graph

\* C17 for the ids that each have an adjacency list in the edge mapping.
C17_ToggleWithLists ==
    \A from, to \in {graph.edges[i].key : i \in DOMAIN graph.edges} :
        IF from # to /\ RoadBetween(graph, from, to)
        THEN Toggled(graph, handleEdgeClick(graph, from, to), from, to)
        ELSE handleEdgeClick(graph, from, to) = graph

\* C18: whatever enqueues and dequeues came before, the value a dequeue
\* returns from a non-empty queue was enqueued, and with a priority that is
\* less than or equal to the priority of every entry left in the queue.
C18_DequeueMinimum ==
    dequeued.t = "value"
        => /\ dequeued.v \in DOMAIN enqueued
           /\ \A i \in DOMAIN pq : enqueued[dequeued.v].v <= pq[i].priority

\* C18: after enqueues and an earlier dequeue, a dequeue has returned a value
\* and left in the queue an entry of the same priority and one of a greater.
C18_Witness ==
    /\ dequeued.t = "value"
    /\ Cardinality(DOMAIN enqueued) - Len(pq) >= 2
    /\ \E i, j \in DOMAIN pq :
          /\ pq[i].priority = enqueued[dequeued.v].v
          /\ pq[j].priority > enqueued[dequeued.v].v

\* C19: from a click of Reset Map until the next click of Find Optimal Route
\* the displayed path and the displayed list of visited nodes are empty, an
\* animation in progress at the click notwithstanding.
C19_ResetClears ==
    sinceReset => (pagePath = <<>> /\ visitedNodes = <<>>)

\* C20: in the graph generateCityGraph builds the straight-line distance
\* between the coordinates of any node n and any destination d is at most
\* the minimum cost, in base weights, of a path from n to d; the straight-line
\* distance between the ends of a road is then at most the road's weight.
C20_CityHeuristicAdmissible ==
    pc = "idle"
        => \A n, d \in NodeIds(graph) :
               LET least == dijkstra(graph, n, d, TRUE).result.distance
               IN  (n # d /\ least.t = "num")
                       => Line2(graph, n, d) <= least.v * least.v

\* C20, its last part alone: the weight of every road of the city's graph is
\* at least the straight-line distance between the road's ends.
C20_CityRoadsAtLeastLine ==
    \A ed \in AllGraphEdges(graph) :
        Line2(graph, ed.from, ed.to)
            <= (ed.weight * TrafficSteps) * (ed.weight * TrafficSteps)

\* The search functions that keep a visited trace
Searching == algorithm \in {"dijkstra", "astar"}

\* C21: in dijkstra and aStar on a graph without negative weights, the
\* distance entry (distances, gScore) and the predecessor entry of a node
\* that is in visited change in no later step of the call.
C21_FinalizedStays ==
    [][(Searching /\ NonNegative(graph))
          => \A id \in Range(visited) :
                 /\ MapGet(distances', id) = MapGet(distances, id)
                 /\ MapGetId(previous', id) = MapGetId(previous, id)]_vars

\* C21 for dijkstra alone.
C21_FinalizedStaysDijkstra ==
    [][(algorithm = "dijkstra" /\ NonNegative(graph))
          => \A id \in Range(visited) :
                 /\ MapGet(distances', id) = MapGet(distances, id)
                 /\ MapGetId(previous', id) = MapGetId(previous, id)]_vars

---------------------------------------------------------------------------
(* The visited trace *)

NoDuplicates(seq) == \A i, j \in DOMAIN seq : seq[i] = seq[j] => i = j

\* The next dequeue returns an id that is already in visited
DequeuesVisited ==
    /\ Searching
    /\ pc = "loop"
    /\ ~isEmpty(pq)
    /\ pq[1].value \in Range(visited)

\* C22: in dijkstra and aStar the visited trace holds no id twice and starts
\* with the source; an iteration that dequeues an id already in visited
\* removes that one queue entry and leaves visited, the distance entries
\* (distances, gScore, fScore) and the predecessor entries as they are.
C22_VisitedOnce ==
    [][Searching =>
          /\ NoDuplicates(visited')
          /\ visited' # <<>> => visited'[1] = startId
          /\ DequeuesVisited =>
                /\ visited' = visited
                /\ distances' = distances
                /\ fScore' = fScore
                /\ previous' = previous
                /\ Len(pq') = Len(pq) - 1
                /\ pc' = "loop"]_vars

\* A second queue entry of a visited id is at the head of the queue
C22_Witness ==
    /\ DequeuesVisited
    /\ startId \in NodeIds(graph)
    /\ Len(visited) >= 2


\* C23: in dijkstra and aStar, once the destination is in visited no step of
\* the call appends to visited or changes a distance or predecessor entry
\* and the loop is not entered again; when the loop is left the destination
\* is in visited exactly if it is reachable from the source over traversable
\* edges, it is then the last element, and the trace returned is that one.
C23_StopsAtDestination ==
    [][Searching =>
          /\ endId \in Range(visited) =>
                /\ visited' = visited
                /\ distances' = distances
                /\ fScore' = fScore
                /\ previous' = previous
                /\ pq' = pq
                /\ pc' # "loop"
          /\ (pc = "loop" /\ pc' = "reconstruct") =>
                /\ endId \in Range(visited')
                       <=> Reachable(graph, startId, endId, isEmergency)
                /\ endId \in Range(visited') => visited'[Len(visited')] = endId
          /\ pc' = "done" => result'.visited = visited]_vars

\* A search returned with the destination last in a trace of several ids
\* while the queue still held entries
C23_Witness ==
    /\ Searching
    /\ Returned
    /\ Len(result.visited) >= 2
    /\ result.visited[Len(result.visited)] = endId
    /\ ~isEmpty(pq)

\* A search returned without the destination in its trace
C23_WitnessUnreachable ==
    /\ Searching
    /\ Returned
    /\ result.visited # <<>>
    /\ endId \notin Range(result.visited)

---------------------------------------------------------------------------
(* The contents of a PriorityQueue *)

\* The bag of the entries in the heap
HeapBag(heap) ==
    [entry \in Range(heap) |-> Cardinality({i \in DOMAIN heap : heap[i] = entry})]

SameBag(a, b) ==
    /\ BagToSet(a) = BagToSet(b)
    /\ \A entry \in BagToSet(a) : CopiesIn(entry, a) = CopiesIn(entry, b)

\* C24: the entries the queue holds are, as a bag of (value, priority), the
\* entries enqueued less the entries returned; isEmpty is true exactly when
\* that bag is empty; from an empty queue a call leaves either one entry
\* (enqueue) or the empty queue with undefined returned (dequeue).
C24_Conserves ==
    [][/\ SameBag(HeapBag(pq'), held')
       /\ isEmpty(pq') <=> BagToSet(held') = {}
       /\ isEmpty(pq) =>
             \/ Len(pq') = 1
             \/ pq' = <<>> /\ dequeued' = Undefined /\ held' = held]_vars

\* The queue holds one value under two priorities and one entry twice, after
\* a dequeue has returned a value that is still held under a larger priority
C24_Witness ==
    /\ dequeued.t = "value"
    /\ \E i, j \in DOMAIN pq :
          /\ pq[i].value = pq[j].value
          /\ pq[i].priority < pq[j].priority
    /\ \E entry \in BagToSet(held) :
          /\ CopiesIn(entry, held) >= 2
          /\ entry.value = dequeued.v

---------------------------------------------------------------------------
(* The two directed edges of a road *)

\* The edges of g that run against edge
Mirrors(g, edge) ==
    {m \in AllGraphEdges(g) : m.from = edge.to /\ m.to = edge.from}

\* C25: in a graph that generateCityGraph returned, every directed edge has
\* an edge in the opposite direction with the same weight, the same traffic
\* and the same blocked flag.
C25_Mirrored ==
    pc = "idle" =>
        \A edge \in AllGraphEdges(graph) :
            \E m \in Mirrors(graph, edge) :
                /\ m.weight = edge.weight
                /\ m.traffic = edge.traffic
                /\ m.blocked = edge.blocked

\* C25 without the traffic value: every directed edge has exactly one edge in
\* the opposite direction, with the same weight and the same blocked flag.
C25_MirroredButTraffic ==
    pc = "idle" =>
        \A edge \in AllGraphEdges(graph) :
            /\ Cardinality(Mirrors(graph, edge)) = 1
            /\ \A m \in Mirrors(graph, edge) :
                  m.weight = edge.weight /\ m.blocked = edge.blocked

---------------------------------------------------------------------------
(* The map of the page: roads toggled, traffic simulated and the map reset *)
(* in any order, on the graph generateCityGraph built.                      *)

\* The ends of the roads the model clicks: the roads A-B, A-F and B-F
MapIds == {"A", "B", "F"}

\* The values Math.random() takes, in steps of traffic: below 1
FullDraws == 0..(TrafficSteps - 1)

\* The number of directed edges with blocked set (the filter of blockedRoads)
BlockedEdgeCount(g) ==
    Cardinality({ij \in {<<i, j>> : i \in DOMAIN g.edges, j \in 1..(2 * Len(edgeData))} :
                    /\ ij[2] \in DOMAIN g.edges[ij[1]].list
                    /\ g.edges[ij[1]].list[ij[2]].blocked})

\* The updater of handleSimulateTraffic: edge.traffic = Math.random() on
\* every edge of every list.  The model draws one value for the edges
\* generateCityGraph pushed first (from -> to of edgeData) and one for the
\* edges it pushed second.
handleSimulateTraffic(g, a, b) ==
    LET PushedFirst(edge) ==
            \E k \in DOMAIN edgeData :
                edgeData[k][1] = edge.from /\ edgeData[k][2] = edge.to
        Redrawn(edge) == [edge EXCEPT !.traffic = IF PushedFirst(edge) THEN a ELSE b]
    IN  [g EXCEPT !.edges =
            [i \in DOMAIN g.edges |->
                [g.edges[i] EXCEPT !.list =
                    [j \in DOMAIN g.edges[i].list |-> Redrawn(g.edges[i].list[j])]]]]

InitMap ==
    /\ graph \in CityGraphs
    /\ startId = Null
    /\ endId = Null
    /\ isEmergency = FALSE
    /\ algorithm = "dijkstra"
    /\ InitPage
    /\ InitQueue
    /\ NoCall

\* A click on a rendered road: onEdgeClick(from, edge.to) for an edge of the
\* graph, whichever of the road's two edges the map rendered
HandleRoadClick ==
    /\ pc = "idle"
    /\ \E edge \in AllGraphEdges(graph) :
          /\ edge.from \in MapIds
          /\ edge.to \in MapIds
          /\ graph' = handleEdgeClick(graph, edge.from, edge.to)
    /\ UNCHANGED <<startId, endId, isEmergency, algorithm, callVars>>
    /\ UNCHANGED <<pageVars, queueVars>>

\* handleSimulateTraffic(), its button enabled
HandleSimulateTraffic ==
    /\ pc = "idle"
    /\ ~isAnimating
    /\ \E a \in FullDraws, b \in FullDraws : graph' = handleSimulateTraffic(graph, a, b)
    /\ UNCHANGED <<startId, endId, isEmergency, algorithm, callVars>>
    /\ UNCHANGED <<pageVars, queueVars>>

MapNext == HandleRoadClick \/ HandleSimulateTraffic \/ HandleReset

MapSpec == InitMap /\ [][MapNext]_vars

\* C26: on the page's graph, after any road toggles, traffic simulations and
\* resets, every directed edge has exactly one edge in the opposite
\* direction and that edge has the same blocked value; the number of blocked
\* directed edges is even, so blockedRoads (that number / 2) is whole.
C26_BlockedMirrored ==
    /\ \A edge \in AllGraphEdges(graph) :
          /\ Cardinality(Mirrors(graph, edge)) = 1
          /\ \A m \in Mirrors(graph, edge) : m.blocked = edge.blocked
    /\ BlockedEdgeCount(graph) % 2 = 0
    /\ BlockedEdgeCount(graph) = 2 * Cardinality(BlockedRoads(graph))

\* Two roads are blocked, after a traffic simulation that gave the two
\* directions of a road different traffic, one of them 0.5 or more
C26_Witness ==
    /\ BlockedRoads(graph) = {{"A", "B"}, {"B", "F"}}
    /\ \E edge \in AllGraphEdges(graph) :
          \E m \in Mirrors(graph, edge) :
              m.traffic # edge.traffic /\ 2 * edge.traffic >= TrafficSteps

---------------------------------------------------------------------------
(* The selection of the page *)

\* C27: on the page, whatever nodes were clicked and however often the map
\* was reset, a selected end comes with a selected start that is another
\* node, and a search handleFindPath has started runs from a source to a
\* destination that is another node.
C27_EndDiffersFromStart ==
    /\ selectedEnd # Null => (selectedStart # Null /\ selectedStart # selectedEnd)
    /\ pc # "idle" => (startId # Null /\ endId # Null /\ startId # endId)

\* A search runs from F to A after an earlier search has returned a path
C27_Witness ==
    /\ pc = "loop"
    /\ startId = "F"
    /\ endId = "A"
    /\ selectedEnd = "A"
    /\ pathDistance # Infinity

---------------------------------------------------------------------------
(* Emergency dispatches: handleTriggerEmergency runs to its first await,    *)
(* then from timer to timer; its button is disabled only while isAnimating, *)
(* so that calls overlap.  Time is counted in ticks of 500 ms: a timer      *)
(* fires when its delay has passed, and timers due together fire in any    *)
(* order.                                                                   *)

\* setTimeout(resolve, 500), in ticks
StepTicks == 1

\* setTimeout(() => setEmergencyVehicle(null), 2000), in ticks
ClearTicks == 4

\* Array.from(graph.nodes.values()).find(n => n.type === 'hospital')
Hospital(g) ==
    IF \E i \in DOMAIN g.nodes : g.nodes[i].type = "hospital"
    THEN g.nodes[CHOOSE i \in DOMAIN g.nodes :
                     /\ g.nodes[i].type = "hospital"
                     /\ \A j \in 1..(i - 1) : g.nodes[j].type # "hospital"].id
    ELSE UndefinedId

\* The destinations Math.random() picks among, of the nodes of type normal
EmergencyDestinations(g) ==
    {g.nodes[i].id : i \in {j \in DOMAIN g.nodes : g.nodes[j].type = "normal"}}
        \cap {"A", "B"}

InitDispatch ==
    /\ graph \in PageGraphs
    /\ startId = Null
    /\ endId = Null
    /\ isEmergency = FALSE
    /\ algorithm = "dijkstra"
    /\ InitPage
    /\ InitQueue
    /\ NoCall

DispatchFrame ==
    /\ UNCHANGED <<graph, startId, endId, isEmergency, algorithm, callVars, queueVars>>
    /\ UNCHANGED <<selectedStart, selectedEnd, pagePath, visitedNodes, pathDistance,
                   isAnimating, animation, sinceReset>>

\* handleTriggerEmergency() up to its first await, its button enabled
HandleTriggerEmergency ==
    /\ pc = "idle"
    /\ ~isAnimating
    /\ Len(dispatches) < MaxDispatches
    /\ \E destination \in EmergencyDestinations(graph) :
          \E p \in {dijkstra(graph, Hospital(graph), destination, TRUE).result.path} :
              IF Hospital(graph) = UndefinedId \/ Len(p) = 0
              THEN UNCHANGED emergencyVars
              ELSE /\ emergencyVehicle' = [position |-> Hospital(graph), path |-> p]
                   /\ dispatches' = Append(dispatches,
                                            [path |-> p, i |-> 1, phase |-> "step",
                                             due |-> StepTicks])
    /\ DispatchFrame

\* The 500 ms timer of a call fires: the vehicle is set on result.path[i];
\* after the last position the call sets its 2000 ms timeout and returns
DispatchStep ==
    /\ pc = "idle"
    /\ \E k \in DOMAIN dispatches :
          LET d == dispatches[k]
          IN  /\ d.phase = "step"
              /\ d.due = 0
              /\ emergencyVehicle' = [position |-> d.path[d.i], path |-> d.path]
              /\ dispatches' =
                     [dispatches EXCEPT ![k] =
                         IF d.i >= Len(d.path)
                         THEN [d EXCEPT !.phase = "clear", !.due = ClearTicks]
                         ELSE [d EXCEPT !.i = @ + 1, !.due = StepTicks]]
    /\ DispatchFrame

\* The 2000 ms timeout of a call fires: setEmergencyVehicle(null)
DispatchClear ==
    /\ pc = "idle"
    /\ \E k \in DOMAIN dispatches :
          /\ dispatches[k].phase = "clear"
          /\ dispatches[k].due = 0
          /\ emergencyVehicle' = NoVehicle
          /\ dispatches' = RemoveAt(dispatches, k)
    /\ DispatchFrame

\* 500 ms pass, no timer being due
DispatchTick ==
    /\ pc = "idle"
    /\ dispatches # <<>>
    /\ \A k \in DOMAIN dispatches : dispatches[k].due > 0
    /\ dispatches' = [k \in DOMAIN dispatches |-> [dispatches[k] EXCEPT !.due = @ - 1]]
    /\ UNCHANGED emergencyVehicle
    /\ DispatchFrame

DispatchNext ==
    \/ HandleTriggerEmergency
    \/ DispatchTick
    \/ DispatchStep
    \/ DispatchClear
    \/ HandleReset

DispatchSpec == InitDispatch /\ [][DispatchNext]_vars

\* A call of handleTriggerEmergency still has positions of its path to set
Stepping == \E k \in DOMAIN dispatches : dispatches[k].phase = "step"

\* C28: while a call of handleTriggerEmergency is still stepping its vehicle
\* along its path, emergencyVehicle is not null, whatever other dispatches
\* and resets happen meanwhile.
C28_ActiveWhileStepping == Stepping => emergencyVehicle # NoVehicle

\* A dispatch is stepping with emergencyVehicle null and the map never reset:
\* the timeout of an earlier dispatch has cleared it
C28_ClearedByEarlierTimeout ==
    /\ Stepping
    /\ emergencyVehicle = NoVehicle
    /\ ~sinceReset

\* emergencyVehicle goes from set to null only in a step of handleReset
\* (dispatches unchanged) or of a 2000 ms timeout (a dispatch ended); every
\* other step of a dispatch leaves it set.
C28_ClearedOnlyByResetOrTimeout ==
    [][(emergencyVehicle # NoVehicle /\ emergencyVehicle' = NoVehicle)
          => \/ dispatches' = dispatches /\ sinceReset'
             \/ Len(dispatches') < Len(dispatches)]_vars

\* Every dispatch the bound allows is in flight and one is stepping, with
\* emergencyVehicle null on a page that was reset
C28_ClearedByReset ==
    /\ Stepping
    /\ emergencyVehicle = NoVehicle
    /\ sinceReset
    /\ Len(dispatches) = MaxDispatches

=============================================================================
